---- MODULE Spec2Model ----
(***************************************************************************)
(* news_buddy: the deduplicating article store (database.py), the fetch    *)
(* job and the summary job (scheduler.py), the summary generator           *)
(* (summarizer.py), the job registrations (scheduler.py) and the three     *)
(* collectors (collectors/).                                               *)
(*                                                                         *)
(* Time is counted in ticks; dates and the lookback window are derived     *)
(* from the tick count.  SQLite is modelled at the grain the code uses it: *)
(* one connection per call, one write statement followed by one commit,    *)
(* with the database write lock held from the statement to the commit.     *)
(***************************************************************************)
EXTENDS Integers, Sequences, FiniteSets, TLC

VARIABLES
    articles,    \* committed rows of table articles
    artSeq,      \* AUTOINCREMENT sequence of table articles
    summaries,   \* committed rows of table summaries
    sumSeq,      \* AUTOINCREMENT sequence of table summaries
    txn,         \* the open write transaction (holder and staged row), or NoTxn
    now,         \* the wall clock, in ticks
    sources,     \* config.sources: the SourceConfig list
    apiKey,      \* config.gemini_api_key is non-empty
    run,         \* the fetch_all_sources invocations
    calls,       \* per url, the save_article calls that returned: how many with an
                 \* identifier (and the last such), whether any with None
    saved,       \* per date, the row of the save_summary call that committed last
    gen,         \* the generate_daily_summary invocations
    query,       \* the last get_articles call of the serving layer
    digest,      \* the last _fallback_summary call
    scheds,      \* the BackgroundScheduler instances of the process
    collect,     \* a collector's fetch_articles call: the source document and the result
    sjob         \* the run_daily_summary execution of the current or last firing

vars == <<articles, artSeq, summaries, sumSeq, txn, now, sources, apiKey,
          run, calls, saved, gen, query, digest, scheds, collect, sjob>>

----------------------------------------------------------------------------
(* Bounds *)

MaxItems == 2
NumUrls == 2
MaxTime == 2
MaxStored == 1
MaxRows == 2
MaxArticles == 8
MaxSchedulers == 3
MaxVaried == 2
MaxRun == 21
MaxSummaries == 2

\* Python's None, and a value that is present where None may stand
None == [none |-> TRUE]
Some(x) == [some |-> x]

\* no connection holds SQLite's write lock
NoTxn == [owner |-> <<"none", 0>>]

\* two fetch_all_sources invocations, which may overlap
Runs == {1, 2}

\* two generate_daily_summary invocations, which may overlap
Gens == {1, 2}

Times == 0..MaxTime

\* the calendar dates of Times
Dates == Times

----------------------------------------------------------------------------
(* Configuration and collectors *)

\* the collector list built by fetch_all_sources, in its order
Collectors == <<"OpenAI", "Anthropic", "DeepMind">>

SourceNames == {Collectors[i] : i \in DOMAIN Collectors}

\* SourceConfig
SourceConfig(name, enabled) == [name |-> name, enabled |-> enabled]

\* Config.sources with every flag at its default
DefaultSources ==
    <<SourceConfig("OpenAI", TRUE), SourceConfig("Anthropic", TRUE),
      SourceConfig("DeepMind", TRUE)>>

\* the configurations a deployment may set: the default one and one with a source
\* disabled
SourceConfigs == {DefaultSources, [DefaultSources EXCEPT ![2].enabled = FALSE]}

\* the revisions of a source document: run r reads revision r of every document,
\* so that the rows two runs build for one url differ
Versions == Runs

\* the utcoffset of a naive datetime, as datetime.strptime builds it
NoTz == None

\* the publication date a collector derives for an item of a document revision
PublishedIn(s, v) ==
    CASE s = "DeepMind" -> None
      [] s = "Anthropic" -> IF v = 1 THEN None ELSE [local |-> 1, off |-> NoTz]
      [] OTHER -> IF v = 1 THEN [local |-> 1, off |-> Some(0)]
                  ELSE [local |-> 0, off |-> Some(-2)]

\* the urls a source's documents may list: NumUrls feed entries, one article on
\* each scraped page
UrlPool(s) == IF s = "OpenAI" THEN {<<s, k>> : k \in 1..NumUrls} ELSE {<<s, 1>>}

Urls == UNION {UrlPool(s) : s \in SourceNames}

\* CollectedArticle
CollectedArticle(s, u, v) ==
    [title |-> <<u, v>>, url |-> u, source |-> s, published_at |-> PublishedIn(s, v)]

SeqsUpTo(S, n) == UNION {[1..k -> S] : k \in 0..n}

NoRepeat(q) == \A i, j \in DOMAIN q : i # j => q[i] # q[j]

\* the url lists one fetch_articles call may return: the feed collector appends
\* every entry, the scrape collectors skip a url they have already kept
UrlLists(s) ==
    IF s = "OpenAI" THEN SeqsUpTo(UrlPool(s), MaxItems)
    ELSE {q \in SeqsUpTo(UrlPool(s), MaxItems) : NoRepeat(q)}

----------------------------------------------------------------------------
(* ArticleStore: table articles *)

\* Article, as fetch_all_sources builds it from a CollectedArticle
Article(c, t) ==
    [title |-> c.title, url |-> c.url, source |-> c.source,
     published_at |-> c.published_at, scraped_at |-> t]

ArticleRow(a, id) ==
    [id |-> id, title |-> a.title, url |-> a.url, source |-> a.source,
     published_at |-> a.published_at, scraped_at |-> a.scraped_at]

UniqueOnTitle(rows, a) == \E r \in rows : r.title = a.title

NoUniqueConstraint(rows, a) == FALSE

\* url TEXT UNIQUE NOT NULL: the INSERT raises IntegrityError
UniqueViolation(rows, a) == \E r \in rows : r.url = a.url


\* save_article as one call: INSERT, commit, return (None when the url exists)
save_article(rows, seq, a) ==
    IF UniqueViolation(rows, a)
    THEN [rows |-> rows, seq |-> seq, id |-> None]
    ELSE [rows |-> rows \cup {ArticleRow(a, seq + 1)}, seq |-> seq + 1,
          id |-> Some(seq + 1)]

\* datetime.isoformat() of a published_at, as a key that sorts like the text:
\* the wall-clock digits first, then the UTC offset suffix ("" for a naive
\* datetime, then "+hh:mm", then "-hh:mm")
OffsetRank(o) ==
    IF o = NoTz THEN 0 ELSE IF o.some >= 0 THEN 1 + o.some ELSE 100 - o.some

IsoKey(p) == <<p.local, OffsetRank(p.off)>>

\* SQLite's comparison of two published_at column values: NULL is smaller than
\* any text, texts compare bytewise
PublishedLess(p, q) ==
    IF q = None THEN FALSE
    ELSE IF p = None THEN TRUE
    ELSE \/ IsoKey(p)[1] < IsoKey(q)[1]
         \/ IsoKey(p)[1] = IsoKey(q)[1] /\ IsoKey(p)[2] < IsoKey(q)[2]

\* ORDER BY published_at DESC, scraped_at DESC: x must come before y
SortsBefore(x, y) ==
    \/ PublishedLess(y.published_at, x.published_at)
    \/ /\ ~PublishedLess(x.published_at, y.published_at)
       /\ ~PublishedLess(y.published_at, x.published_at)
       /\ x.scraped_at > y.scraped_at

Take(q, n) == SubSeq(q, 1, IF n < Len(q) THEN n ELSE Len(q))

\* the orders in which SQLite may return the rows: any one that respects the
\* ORDER BY keys (rows equal on both keys come in an unspecified order)
Orderings(rows) ==
    {q \in [1..Cardinality(rows) -> rows] :
        /\ \A i, j \in DOMAIN q : i # j => q[i] # q[j]
        /\ \A i, j \in DOMAIN q : i < j => ~SortsBefore(q[j], q[i])}

\* WHERE source = ? AND scraped_at >= ?, each condition only when the argument
\* is given (scraped_at is an isoformat text of a naive datetime, which sorts as
\* the time does)
Matching(rows, source, since) ==
    {r \in rows : /\ source = None \/ r.source = source.some
                  /\ since = None \/ r.scraped_at >= since.some}

\* get_articles: the lists it may return
get_articles(rows, source, since, limit) ==
    {Take(q, limit) : q \in Orderings(Matching(rows, source, since))}

----------------------------------------------------------------------------
(* fetch_all_sources *)

\* a run before its entry.  invoked and failed record what the run did: the
\* collectors whose fetch_articles was called, and those whose call raised
IdleRun ==
    [pc |-> "idle", ci |-> 0, items |-> <<>>, new_count |-> 0, total_new |-> 0,
     invoked |-> <<>>, failed |-> {}, ret |-> None]

\* entry: the collector list is built and total_new = 0
FetchStart(r) ==
    /\ run[r].pc = "idle"
    /\ run' = [run EXCEPT ![r] = [IdleRun EXCEPT !.pc = "fetch", !.ci = 1]]
    /\ UNCHANGED <<articles, artSeq, summaries, sumSeq, txn, now, sources, apiKey,
                   calls, saved, gen, query, digest, scheds, collect, sjob>>

\* collector.fetch_articles() returns a list; new_count = 0
FetchArticlesOk(r) ==
    /\ run[r].pc = "fetch"
    /\ LET s == Collectors[run[r].ci] IN
       \E q \in UrlLists(s) :
          LET got == [i \in DOMAIN q |-> CollectedArticle(s, q[i], r)] IN
          run' = [run EXCEPT ![r].pc = "save", ![r].items = got, ![r].new_count = 0,
                             ![r].invoked = Append(@, s)]
    /\ UNCHANGED <<articles, artSeq, summaries, sumSeq, txn, now, sources, apiKey,
                   calls, saved, gen, query, digest, scheds, collect, sjob>>

\* where the loop goes after collector ci
NextCollector(rec) ==
    IF rec.ci < Len(Collectors)
    THEN [rec EXCEPT !.pc = "fetch", !.ci = @ + 1, !.items = <<>>]
    ELSE [rec EXCEPT !.pc = "return", !.items = <<>>]

AfterRaisePropagate(rec) == [rec EXCEPT !.pc = "raised", !.items = <<>>]

\* except Exception: the error is printed and the loop goes on
AfterRaise(rec) == NextCollector(rec)

\* collector.fetch_articles() raises (network error, HTTP status, parse error)
FetchArticlesRaise(r) ==
    /\ run[r].pc = "fetch"
    /\ LET s == Collectors[run[r].ci]
           rec == [run[r] EXCEPT !.invoked = Append(@, s), !.failed = @ \cup {s}]
       IN run' = [run EXCEPT ![r] = AfterRaise(rec)]
    /\ UNCHANGED <<articles, artSeq, summaries, sumSeq, txn, now, sources, apiKey,
                   calls, saved, gen, query, digest, scheds, collect, sjob>>

\* save_article: the INSERT hits the UNIQUE constraint, IntegrityError is caught
\* and None returned; the connection is closed
SaveDuplicate(r) ==
    /\ run[r].pc = "save"
    /\ run[r].items # <<>>
    /\ txn = NoTxn
    /\ LET a == Article(Head(run[r].items), now) IN
       /\ UniqueViolation(articles, a)
       /\ run' = [run EXCEPT ![r].items = Tail(@)]
       /\ calls' = [calls EXCEPT ![a.url].dups = TRUE]
    /\ UNCHANGED <<articles, artSeq, summaries, sumSeq, txn, now, sources, apiKey,
                   saved, gen, query, digest, scheds, collect, sjob>>

\* save_article: the INSERT succeeds; the row is staged and the write lock held
SaveInsert(r) ==
    /\ run[r].pc = "save"
    /\ run[r].items # <<>>
    /\ txn = NoTxn
    /\ LET a == Article(Head(run[r].items), now) IN
       /\ ~UniqueViolation(articles, a)
       /\ txn' = [owner |-> <<"run", r>>, article |-> a, id |-> artSeq + 1]
       /\ run' = [run EXCEPT ![r].pc = "commit"]
    /\ UNCHANGED <<articles, artSeq, summaries, sumSeq, now, sources, apiKey,
                   calls, saved, gen, query, digest, scheds, collect, sjob>>

\* save_article: conn.commit(), return cursor.lastrowid; the caller counts it
SaveCommit(r) ==
    /\ run[r].pc = "commit"
    /\ txn.owner = <<"run", r>>
    /\ articles' = articles \cup {ArticleRow(txn.article, txn.id)}
    /\ artSeq' = txn.id
    /\ txn' = NoTxn
    /\ run' = [run EXCEPT ![r].pc = "save", ![r].items = Tail(@),
                          ![r].new_count = @ + 1]
    /\ calls' = [calls EXCEPT ![txn.article.url].wins = @ + 1,
                              ![txn.article.url].winner =
                                  [article |-> txn.article, id |-> txn.id]]
    /\ UNCHANGED <<summaries, sumSeq, now, sources, apiKey, saved, gen, query, digest,
                   scheds, collect, sjob>>

\* save_article raises: the INSERT waited for the write lock another connection
\* holds until the busy timeout ran out (sqlite3.OperationalError, database is
\* locked).  save_article catches IntegrityError only, so the error leaves the
\* inner loop and reaches the except clause of the collector loop
SaveRaises(r) ==
    /\ run[r].pc = "save"
    /\ run[r].items # <<>>
    /\ txn # NoTxn
    /\ txn.owner # <<"run", r>>
    /\ run' = [run EXCEPT ![r] = AfterRaise(run[r])]
    /\ UNCHANGED <<articles, artSeq, summaries, sumSeq, txn, now, sources, apiKey,
                   calls, saved, gen, query, digest, scheds, collect, sjob>>

\* the inner loop is over: total_new += new_count, next collector
CollectorDone(r) ==
    /\ run[r].pc = "save"
    /\ run[r].items = <<>>
    /\ run' = [run EXCEPT ![r] =
                 NextCollector([run[r] EXCEPT !.total_new = @ + run[r].new_count])]
    /\ UNCHANGED <<articles, artSeq, summaries, sumSeq, txn, now, sources, apiKey,
                   calls, saved, gen, query, digest, scheds, collect, sjob>>

\* return total_new
FetchReturn(r) ==
    /\ run[r].pc = "return"
    /\ run' = [run EXCEPT ![r].pc = "done", ![r].ret = Some(run[r].total_new)]
    /\ UNCHANGED <<articles, artSeq, summaries, sumSeq, txn, now, sources, apiKey,
                   calls, saved, gen, query, digest, scheds, collect, sjob>>

\* the wall clock advances
Tick ==
    /\ now < MaxTime
    /\ now' = now + 1
    /\ UNCHANGED <<articles, artSeq, summaries, sumSeq, txn, sources, apiKey,
                   run, calls, saved, gen, query, digest, scheds, collect, sjob>>

----------------------------------------------------------------------------

----------------------------------------------------------------------------
(* summarizer.py *)

\* summary_lookback_hours = 24, in ticks: a tick is one day
LookbackTicks == 1

\* limit=50 of the get_articles call
SummaryLimit == 50

\* strftime("%Y-%m-%d") of a time
DateOf(t) == t

Placeholder == [text |-> "No new articles were published in the last 24 hours."]

\* the code points of a source name
CodePoints(s) ==
    CASE s = "OpenAI" -> <<79, 112, 101, 110, 65, 73>>
      [] s = "Anthropic" -> <<65, 110, 116, 104, 114, 111, 112, 105, 99>>
      [] s = "DeepMind" -> <<68, 101, 101, 112, 77, 105, 110, 100>>

RECURSIVE LexLess(_, _)
LexLess(p, q) ==
    IF q = <<>> THEN FALSE
    ELSE IF p = <<>> THEN TRUE
    ELSE IF Head(p) # Head(q) THEN Head(p) < Head(q)
    ELSE LexLess(Tail(p), Tail(q))

\* Python's < on two source names
StrLess(a, b) == LexLess(CodePoints(a), CodePoints(b))

\* dict insertion order: the sources in order of first appearance
RECURSIVE FirstSeen(_)
FirstSeen(arts) ==
    IF arts = <<>> THEN <<>>
    ELSE LET rest == FirstSeen(SubSeq(arts, 1, Len(arts) - 1))
             s == arts[Len(arts)].source
         IN IF \E i \in DOMAIN rest : rest[i] = s THEN rest ELSE Append(rest, s)

RECURSIVE SortedNames(_)
SortedNames(S) ==
    IF S = {} THEN <<>>
    ELSE LET m == CHOOSE x \in S : \A y \in S \ {x} : StrLess(x, y)
         IN <<m>> \o SortedNames(S \ {m})

InsertionOrder(arts) == FirstSeen(arts)

\* sorted(by_source.items()): the groups in ascending order of source name
GroupOrder(arts) == SortedNames({arts[i].source : i \in DOMAIN arts})

UncappedGroup(q) == q

\* source_articles[:5]
FirstFive(q) == Take(q, 5)

Link(a) == [link |-> a.title, href |-> a.url]

\* one group: "## source" and a bullet per article shown
Section(arts, s) ==
    LET mine == SelectSeq(arts, LAMBDA a : a.source = s)
        shown == FirstFive(mine)
    IN <<[heading |-> s]>> \o [i \in DOMAIN shown |-> Link(shown[i])]

RECURSIVE Sections(_, _)
Sections(arts, names) ==
    IF names = <<>> THEN <<>>
    ELSE Section(arts, Head(names)) \o Sections(arts, Tail(names))

\* _fallback_summary: the lines of the digest (joined by newlines in the code):
\* the title, the sections, the "Generated on" footer
_fallback_summary(arts, t) ==
    [lines |-> <<[title |-> "# Daily AI News Digest"]>>
               \o Sections(arts, GroupOrder(arts))
               \o <<[generated |-> t]>>]

\* a generation before its entry.  queried, llm_calls, raised_in and stored record
\* what the call did: the number of articles its query returned, the requests it
\* sent to the model, the step of the primary path that raised, the row it
\* committed
IdleGen ==
    [pc |-> "idle", arts |-> <<>>, content |-> None, summary |-> None,
     queried |-> 0, llm_calls |-> 0, raised_in |-> "none", stored |-> None,
     ret |-> None]

NeverEmpty(arts) == FALSE

\* if not articles
WindowEmpty(arts) == arts = <<>>

\* generate_daily_summary: since, get_articles(since=since, limit=50), and the
\* placeholder when the list is empty
GetRecent(g) ==
    /\ gen[g].pc = "idle"
    /\ \E res \in get_articles(articles, None, Some(now - LookbackTicks), SummaryLimit) :
         gen' = [gen EXCEPT ![g] =
                   IF WindowEmpty(res)
                   THEN [IdleGen EXCEPT !.pc = "build", !.queried = Len(res),
                                        !.content = Placeholder]
                   ELSE [IdleGen EXCEPT !.pc = "gemini", !.queried = Len(res),
                                        !.arts = res]]
    /\ UNCHANGED <<articles, artSeq, summaries, sumSeq, txn, now, sources, apiKey,
                   run, calls, saved, query, digest, scheds, collect, sjob>>

\* _generate_summary_with_gemini: no api key, the fallback digest is returned
GeminiNoKey(g) ==
    /\ gen[g].pc = "gemini"
    /\ ~apiKey
    /\ gen' = [gen EXCEPT ![g].pc = "build", ![g].arts = <<>>,
                          ![g].content = _fallback_summary(gen[g].arts, now)]
    /\ UNCHANGED <<articles, artSeq, summaries, sumSeq, txn, now, sources, apiKey,
                   run, calls, saved, query, digest, scheds, collect, sjob>>

\* an exception outside any try block leaves generate_daily_summary
Propagate(rec, step) ==
    [rec EXCEPT !.pc = "raised", !.arts = <<>>, !.raised_in = step]

\* genai.configure(api_key=...) returns
GenaiConfigure(g) ==
    /\ gen[g].pc = "gemini"
    /\ apiKey
    /\ gen' = [gen EXCEPT ![g].pc = "model"]
    /\ UNCHANGED <<articles, artSeq, summaries, sumSeq, txn, now, sources, apiKey,
                   run, calls, saved, query, digest, scheds, collect, sjob>>

\* genai.configure(api_key=...) raises
GenaiConfigureRaises(g) ==
    /\ gen[g].pc = "gemini"
    /\ apiKey
    /\ gen' = [gen EXCEPT ![g] = Propagate(gen[g], "configure")]
    /\ UNCHANGED <<articles, artSeq, summaries, sumSeq, txn, now, sources, apiKey,
                   run, calls, saved, query, digest, scheds, collect, sjob>>

\* genai.GenerativeModel(config.gemini_model) returns; the prompt is built
GenerativeModel(g) ==
    /\ gen[g].pc = "model"
    /\ gen' = [gen EXCEPT ![g].pc = "request"]
    /\ UNCHANGED <<articles, artSeq, summaries, sumSeq, txn, now, sources, apiKey,
                   run, calls, saved, query, digest, scheds, collect, sjob>>

\* genai.GenerativeModel(config.gemini_model) raises
GenerativeModelRaises(g) ==
    /\ gen[g].pc = "model"
    /\ gen' = [gen EXCEPT ![g] = Propagate(gen[g], "model")]
    /\ UNCHANGED <<articles, artSeq, summaries, sumSeq, txn, now, sources, apiKey,
                   run, calls, saved, query, digest, scheds, collect, sjob>>

\* model.generate_content(prompt) answers and response.text is read
GenerateContent(g) ==
    /\ gen[g].pc = "request"
    /\ gen' = [gen EXCEPT ![g].pc = "build", ![g].arts = <<>>,
                          ![g].llm_calls = @ + 1,
                          ![g].content = [text |-> "response.text"]]
    /\ UNCHANGED <<articles, artSeq, summaries, sumSeq, txn, now, sources, apiKey,
                   run, calls, saved, query, digest, scheds, collect, sjob>>

\* model.generate_content(prompt) or response.text raises: except Exception, the
\* fallback digest is returned
GenerateContentRaises(g) ==
    /\ gen[g].pc = "request"
    /\ gen' = [gen EXCEPT ![g].pc = "build", ![g].arts = <<>>,
                          ![g].llm_calls = @ + 1, ![g].raised_in = "request",
                          ![g].content = _fallback_summary(gen[g].arts, now)]
    /\ UNCHANGED <<articles, artSeq, summaries, sumSeq, txn, now, sources, apiKey,
                   run, calls, saved, query, digest, scheds, collect, sjob>>

\* Summary(id=None, date=today, content, created_at=now)
Summary(content, t) ==
    [id |-> None, date |-> DateOf(t), content |-> content, created_at |-> t]

BuildSummary(g) ==
    /\ gen[g].pc = "build"
    /\ gen' = [gen EXCEPT ![g].pc = "save", ![g].summary = Summary(gen[g].content, now)]
    /\ UNCHANGED <<articles, artSeq, summaries, sumSeq, txn, now, sources, apiKey,
                   run, calls, saved, query, digest, scheds, collect, sjob>>

SummaryRow(sm, id) ==
    [id |-> id, date |-> sm.date, content |-> sm.content, created_at |-> sm.created_at]

InsertOrIgnore(rows, row) ==
    IF \E x \in rows : x.date = row.date THEN rows ELSE rows \cup {row}

InsertKeepingOld(rows, row) == rows \cup {row}

\* INSERT OR REPLACE on date TEXT UNIQUE: the row of that date is deleted and the
\* new row inserted
InsertOrReplace(rows, row) == {x \in rows : x.date # row.date} \cup {row}

\* save_summary: the INSERT OR REPLACE statement; the write lock is taken
SaveSummaryInsert(g) ==
    /\ gen[g].pc = "save"
    /\ txn = NoTxn
    /\ txn' = [owner |-> <<"gen", g>>, row |-> SummaryRow(gen[g].summary, sumSeq + 1)]
    /\ gen' = [gen EXCEPT ![g].pc = "commit"]
    /\ UNCHANGED <<articles, artSeq, summaries, sumSeq, now, sources, apiKey,
                   run, calls, saved, query, digest, scheds, collect, sjob>>

\* save_summary: conn.commit() and SELECT last_insert_rowid(); then
\* generate_daily_summary returns the Summary it built
SaveSummaryCommit(g) ==
    /\ gen[g].pc = "commit"
    /\ txn.owner = <<"gen", g>>
    /\ summaries' = InsertOrReplace(summaries, txn.row)
    /\ sumSeq' = txn.row.id
    /\ txn' = NoTxn
    /\ saved' = [saved EXCEPT ![txn.row.date] = txn.row]
    /\ gen' = [gen EXCEPT ![g].pc = "done", ![g].stored = txn.row,
                          ![g].ret = gen[g].summary]
    /\ UNCHANGED <<articles, artSeq, now, sources, apiKey, run, calls, query,
                   digest, scheds, collect, sjob>>

\* fetch run r persists one collected article: fetch_all_sources builds the
\* Article and calls save_article
PersistArticle(r) ==
    /\ txn = NoTxn
    /\ \E s \in SourceNames : \E u \in UrlPool(s) :
         LET res == save_article(articles, artSeq, Article(CollectedArticle(s, u, r), now))
         IN /\ articles' = res.rows
            /\ artSeq' = res.seq
    /\ UNCHANGED <<summaries, sumSeq, txn, now, sources, apiKey, run, calls, saved,
                   saved, gen, query, digest, scheds, collect, sjob>>

----------------------------------------------------------------------------
(* The serving layer and the digest *)

\* app.py: get_articles(source=..., since=..., limit=...) on the committed rows
Query(source, since, limit) ==
    /\ \E res \in get_articles(articles, source, since, limit) :
         query' = [source |-> source, since |-> since, limit |-> limit, result |-> res]
    /\ UNCHANGED <<articles, artSeq, summaries, sumSeq, txn, now, sources, apiKey,
                   run, calls, saved, gen, digest, scheds, collect, sjob>>

\* the article lists handed to _fallback_summary: rows of distinct urls, of
\* any sources in any order
DigestInputs ==
    {[i \in DOMAIN q |->
        ArticleRow(Article(CollectedArticle(q[i], <<q[i], i>>, 1), 0), i)] :
     q \in SeqsUpTo(SourceNames, MaxArticles) \ {<<>>}}

\* _fallback_summary(articles)
Digest ==
    /\ digest # None
    /\ digest.output = None
    /\ digest' = [digest EXCEPT !.output = _fallback_summary(digest.input, now)]
    /\ UNCHANGED <<articles, artSeq, summaries, sumSeq, txn, now, sources, apiKey,
                   run, calls, saved, gen, query, scheds, collect, sjob>>

----------------------------------------------------------------------------
(* collectors: strings *)

\* A string is the sequence of its characters.
Lowers == <<"a", "b", "c", "d", "e", "f", "g", "h", "i", "j", "k", "l", "m", "n", "o", "p", "q",
        "r", "s", "t", "u", "v", "w", "x", "y", "z">>
Uppers == <<"A", "B", "C", "D", "E", "F", "G", "H", "I", "J", "K", "L", "M", "N", "O", "P", "Q",
        "R", "S", "T", "U", "V", "W", "X", "Y", "Z">>
Digits == <<"0", "1", "2", "3", "4", "5", "6", "7", "8", "9">>

IsLetter(c) == \E i \in DOMAIN Lowers : c = Lowers[i] \/ c = Uppers[i]

IsSpace(c) == c \in {" ", "\t", "\n"}

\* str.lower, str.upper on one character
LowerChar(c) ==
    IF \E i \in DOMAIN Uppers : Uppers[i] = c
    THEN Lowers[CHOOSE i \in DOMAIN Uppers : Uppers[i] = c] ELSE c

UpperChar(c) ==
    IF \E i \in DOMAIN Lowers : Lowers[i] = c
    THEN Uppers[CHOOSE i \in DOMAIN Lowers : Lowers[i] = c] ELSE c

\* str.lower()
ToLower(s) == [i \in DOMAIN s |-> LowerChar(s[i])]

\* str() of a small natural number
Numeral(n) ==
    IF n < 10 THEN <<Digits[n + 1]>> ELSE <<Digits[(n \div 10) + 1], Digits[(n % 10) + 1]>>

Drop(s, k) == SubSeq(s, k + 1, Len(s))

RECURSIVE LStrip(_)
LStrip(s) == IF s # <<>> /\ IsSpace(Head(s)) THEN LStrip(Tail(s)) ELSE s

RECURSIVE RStrip(_)
RStrip(s) ==
    IF s # <<>> /\ IsSpace(s[Len(s)]) THEN RStrip(SubSeq(s, 1, Len(s) - 1)) ELSE s

\* str.strip()
Strip(s) == LStrip(RStrip(s))

\* str.rstrip("/")
RECURSIVE RStripSlash(_)
RStripSlash(s) ==
    IF s # <<>> /\ s[Len(s)] = "/" THEN RStripSlash(SubSeq(s, 1, Len(s) - 1)) ELSE s

\* str.startswith; with re.IGNORECASE when ic
StartsWith(s, p, ic) ==
    /\ Len(p) <= Len(s)
    /\ IF ic THEN ToLower(SubSeq(s, 1, Len(p))) = ToLower(p) ELSE SubSeq(s, 1, Len(p)) = p

\* p in s
Contains(s, p) == \E k \in 0..(Len(s) - Len(p)) : SubSeq(s, k + 1, k + Len(p)) = p

\* s.split(c)[0] and s.split(c)[-1]
BeforeFirst(s, c) ==
    IF \E i \in DOMAIN s : s[i] = c
    THEN SubSeq(s, 1, (CHOOSE i \in DOMAIN s : s[i] = c /\ \A j \in 1..(i - 1) : s[j] # c) - 1)
    ELSE s

AfterLast(s, c) ==
    IF \E i \in DOMAIN s : s[i] = c
    THEN Drop(s, CHOOSE i \in DOMAIN s : s[i] = c /\ \A j \in (i + 1)..Len(s) : s[j] # c)
    ELSE s

\* str.replace(a, b) for single characters
ReplaceChar(s, a, b) == [i \in DOMAIN s |-> IF s[i] = a THEN b ELSE s[i]]

\* str.title(): a letter is upper-cased after a non-letter and lower-cased
\* after a letter
TitleCase(s) ==
    [i \in DOMAIN s |->
        IF i = 1 \/ ~IsLetter(s[i - 1]) THEN UpperChar(s[i]) ELSE LowerChar(s[i])]

\* re.sub(p + r'\s*', '', s, flags=re.IGNORECASE): every occurrence of p goes,
\* with the whitespace after it
RECURSIVE SubAll(_, _)
SubAll(s, p) ==
    IF s = <<>> THEN <<>>
    ELSE IF StartsWith(s, p, TRUE) THEN SubAll(LStrip(Drop(s, Len(p))), p)
    ELSE <<Head(s)>> \o SubAll(Tail(s), p)

\* re.sub(r'\s*' + p + r'\s*$', '', s, flags=re.IGNORECASE): p at the end of s
\* goes, with the whitespace around it
SubAtEnd(s, p) ==
    LET t == RStrip(s) IN
    IF Len(p) <= Len(t) /\ ToLower(SubSeq(t, Len(t) - Len(p) + 1, Len(t))) = ToLower(p)
    THEN RStrip(SubSeq(t, 1, Len(t) - Len(p)))
    ELSE s

----------------------------------------------------------------------------
(* collectors: the three fetch_articles *)

\* articles[:20]
PerRunLimit == 20

\* CollectedArticle(title=..., url=..., source=..., published_at=...)
Collected(title, url, source, published_at) ==
    [title |-> title, url |-> url, source |-> source, published_at |-> published_at]

\* OpenAICollector.fetch_articles on the entries feedparser.parse returned: one
\* item per entry
RECURSIVE FeedItems(_)
FeedItems(entries) ==
    IF entries = <<>> THEN <<>>
    ELSE LET entry == Head(entries) IN
         <<Collected(IF entry.title = None THEN <<"U", "n", "t", "i", "t", "l", "e",
                 "d">> ELSE entry.title.some,
                     IF entry.link = None THEN <<>> ELSE entry.link.some,
                     "OpenAI", entry.published)>>
         \o FeedItems(Tail(entries))

OpenAIFetch(entries) == FeedItems(entries)

\* link.text(strip=True): the text nodes under the anchor, each stripped,
\* joined
RECURSIVE NodeText(_)
NodeText(nodes) ==
    IF nodes = <<>> THEN <<>> ELSE Strip(Head(nodes).text) \o NodeText(Tail(nodes))

\* the anchors kept by AnthropicCollector.fetch_articles, in document order
RECURSIVE AnthropicKept(_, _)
AnthropicKept(anchors, kept) ==
    IF anchors = <<>> THEN kept
    ELSE LET link == Head(anchors)
             href == link.href
             url == <<"h", "t", "t", "p", "s", ":", "/", "/", "w", "w", "w", ".", "a", "n", "t",
                     "h", "r", "o", "p", "i", "c", ".", "c", "o", "m">> \o href
             title == NodeText(link.nodes)
         IN IF ~StartsWith(href, <<"/", "n", "e", "w", "s", "/">>,
                 FALSE) THEN AnthropicKept(Tail(anchors), kept)
            ELSE IF href = <<"/", "n", "e", "w", "s">> \/ href = <<"/", "n", "e", "w", "s",
                    "/">> THEN AnthropicKept(Tail(anchors), kept)
            ELSE IF title = <<>> \/ Len(title) < 5 THEN AnthropicKept(Tail(anchors), kept)
            ELSE IF \E i \in DOMAIN kept : kept[i].url = url
                 THEN AnthropicKept(Tail(anchors), kept)
            ELSE AnthropicKept(Tail(anchors),
                               Append(kept, Collected(title, url, "Anthropic", link.context)))

AnthropicFetch(anchors) == Take(AnthropicKept(anchors, <<>>), PerRunLimit)

\* the phrases _is_valid_title rejects
InvalidTitles ==
    {<<"l", "e", "a", "r", "n", " ", "m", "o", "r", "e">>, <<"r", "e", "a", "d", " ", "m", "o",
            "r", "e">>, <<"k", "e", "y", "b", "o", "a", "r", "d", "_", "a", "r", "r", "o", "w",
                    "_", "r", "i", "g", "h", "t">>, <<"s", "e", "e", " ", "m", "o", "r", "e">>,
                            <<"v", "i", "e", "w", " ", "a", "l", "l">>}

\* _is_valid_title
_is_valid_title(text) ==
    IF text = <<>> \/ Len(text) < 5 THEN FALSE
    ELSE Strip(ToLower(text)) \notin InvalidTitles

\* re.sub(r'^(blog-|post-|article-)', '', path)
DropSlugPrefix(path) ==
    IF StartsWith(path, <<"b", "l", "o", "g", "-">>, FALSE) THEN Drop(path, 5)
    ELSE IF StartsWith(path, <<"p", "o", "s", "t", "-">>, FALSE) THEN Drop(path, 5)
    ELSE IF StartsWith(path, <<"a", "r", "t", "i", "c", "l", "e", "-">>, FALSE) THEN Drop(path, 8)
    ELSE path

\* _title_from_url
_title_from_url(url) ==
    LET path == DropSlugPrefix(AfterLast(RStripSlash(url), "/"))
    IN TitleCase(ReplaceChar(ReplaceChar(path, "-", " "), "_", " "))

\* link_node.css_first("h1, h2, h3, h4"): the first heading under the anchor
IsHeading(node) == node.tag \in {"h1", "h2", "h3", "h4"}

\* strategy 3: the anchor text without the navigation artifacts
CleanLinkText(link) ==
    Strip(SubAtEnd(SubAtEnd(SubAll(NodeText(link.nodes), <<"k", "e", "y", "b", "o", "a", "r",
            "d", "_", "a", "r", "r", "o", "w", "_", "r", "i", "g", "h", "t">>),
                            <<"L", "e", "a", "r", "n", " ", "m", "o", "r", "e">>), <<"R", "e",
                                    "a", "d", " ", "m", "o", "r", "e">>))

\* _extract_title
_extract_title(link, url) ==
    IF link.aria # <<>> /\ _is_valid_title(link.aria) THEN link.aria
    ELSE LET hs == {i \in DOMAIN link.nodes : IsHeading(link.nodes[i])}
             text == IF hs = {} THEN <<>>
                     ELSE Strip(link.nodes[CHOOSE i \in hs : \A j \in hs : i <= j].text)
         IN IF hs # {} /\ _is_valid_title(text) THEN text
            ELSE IF _is_valid_title(CleanLinkText(link)) THEN CleanLinkText(link)
            ELSE _title_from_url(url)

\* the url DeepMindCollector.fetch_articles keeps for an href
BaseUrl(href) ==
    BeforeFirst(IF StartsWith(href, <<"/">>, FALSE) THEN <<"h", "t", "t", "p", "s", ":", "/",
            "/", "d", "e", "e", "p", "m", "i", "n", "d", ".", "g", "o", "o", "g", "l", "e">> \o href
                ELSE href, "?")

\* the anchor is a blog link other than the listing page
IsBlogLink(href) ==
    /\ \/ Contains(href, <<"/", "b", "l", "o", "g", "/">>) /\ Contains(href, <<"d", "e", "e",
            "p", "m", "i", "n", "d", ".", "g", "o", "o", "g", "l", "e">>)
       \/ Contains(href, <<"b", "l", "o", "g", ".", "g", "o", "o", "g", "l", "e">>)
    /\ RStripSlash(href) # <<"h", "t", "t", "p", "s", ":", "/", "/", "d", "e", "e", "p", "m",
            "i", "n", "d", ".", "g", "o", "o", "g", "l", "e", "/", "d", "i", "s", "c", "o", "v",
                    "e", "r", "/", "b", "l", "o", "g">>
    /\ RStripSlash(href) # <<"/", "d", "i", "s", "c", "o", "v", "e", "r", "/", "b", "l", "o", "g">>

\* the anchors kept by DeepMindCollector.fetch_articles, in document order
RECURSIVE DeepMindKept(_, _, _)
DeepMindKept(anchors, kept, seen_urls) ==
    IF anchors = <<>> THEN kept
    ELSE LET link == Head(anchors)
             base_url == BaseUrl(link.href)
             title == _extract_title(link, base_url)
         IN IF ~IsBlogLink(link.href) THEN DeepMindKept(Tail(anchors), kept, seen_urls)
            ELSE IF base_url \in seen_urls THEN DeepMindKept(Tail(anchors), kept, seen_urls)
            ELSE IF title = <<>> \/ Len(title) < 5
                 THEN DeepMindKept(Tail(anchors), kept, seen_urls \cup {base_url})
            ELSE DeepMindKept(Tail(anchors),
                              Append(kept, Collected(title, base_url, "DeepMind", None)),
                              seen_urls \cup {base_url})

DeepMindFetch(anchors) == Take(DeepMindKept(anchors, <<>>, {}), PerRunLimit)

\* collector.fetch_articles() on a source document
fetch_articles(source, doc) ==
    IF source = "OpenAI" THEN OpenAIFetch(doc)
    ELSE IF source = "Anthropic" THEN AnthropicFetch(doc)
    ELSE DeepMindFetch(doc)

----------------------------------------------------------------------------
(* collectors: source documents *)

\* an <a> element: its href, its aria-label ("" when absent), the nodes under
\* it that carry text, and the date its parent's text shows, if any
Anchor(href, aria, nodes, context) ==
    [href |-> href, aria |-> aria, nodes |-> nodes, context |-> context]

Node(tag, text) == [tag |-> tag, text |-> text]

\* anchors as the pages carry them: cards with a label, a heading or plain
\* text, "view all" and "read more" links, the listing pages themselves
AnchorPool ==
    {Anchor(<<"h", "t", "t", "p", "s", ":", "/", "/", "b", "l", "o", "g", ".", "g", "o", "o",
            "g", "l", "e", "/", "v", "i", "e", "w", "-", "a", "l", "l", "/">>, <<>>,
                    <<Node("span", <<"V", "i", "e", "w", " ", "a", "l", "l">>)>>, None),
     Anchor(<<"h", "t", "t", "p", "s", ":", "/", "/", "d", "e", "e", "p", "m", "i", "n", "d",
             ".", "g", "o", "o", "g", "l", "e", "/", "d", "i", "s", "c", "o", "v", "e", "r", "/",
                     "b", "l", "o", "g", "/", "g", "e", "m", "i", "n", "i", "-", "3", "/">>,
                             <<"G", "e", "m", "i", "n", "i", " ", "3", " ", "l", "a", "u", "n",
                                     "c", "h">>,
            <<Node("h3", <<"G", "e", "m", "i", "n", "i", " ", "3">>), Node("span", <<" ", "L",
                    "e", "a", "r", "n", " ", "m", "o", "r", "e">>)>>, None),
     Anchor(<<"h", "t", "t", "p", "s", ":", "/", "/", "d", "e", "e", "p", "m", "i", "n", "d",
             ".", "g", "o", "o", "g", "l", "e", "/", "d", "i", "s", "c", "o", "v", "e", "r", "/",
                     "b", "l", "o", "g", "/", "a", "l", "p", "h", "a", "f", "o", "l", "d", "-",
                             "n", "e", "w", "s">>, <<"L", "e", "a", "r", "n", " ", "m", "o", "r",
                                     "e">>,
            <<Node("h3", <<"A", "l", "p", "h", "a", "F", "o", "l", "d", " ", "n", "e", "w",
                    "s">>), Node("span", <<"k", "e", "y", "b", "o", "a", "r", "d", "_", "a", "r",
                            "r", "o", "w", "_", "r", "i", "g", "h", "t">>)>>, None),
     Anchor(<<"h", "t", "t", "p", "s", ":", "/", "/", "b", "l", "o", "g", ".", "g", "o", "o",
             "g", "l", "e", "/", "r", "o", "b", "o", "t", "s", "-", "a", "t", "-", "w", "o", "r",
                     "k", "?", "u", "t", "m", "=", "1">>, <<>>,
            <<Node("text", <<"R", "o", "b", "o", "t", "s", " ", "a", "t", " ", "w", "o", "r",
                    "k", " ">>), Node("span", <<"R", "e", "a", "d", " ", "m", "o", "r", "e">>)>>,
                            None),
     Anchor(<<"h", "t", "t", "p", "s", ":", "/", "/", "b", "l", "o", "g", ".", "g", "o", "o",
             "g", "l", "e", "/", "a", "i">>, <<>>, <<Node("span", <<"R", "e", "a", "d", " ", "m",
                     "o", "r", "e">>)>>, None),
     Anchor(<<"h", "t", "t", "p", "s", ":", "/", "/", "d", "e", "e", "p", "m", "i", "n", "d",
             ".", "g", "o", "o", "g", "l", "e", "/", "d", "i", "s", "c", "o", "v", "e", "r", "/",
                     "b", "l", "o", "g", "/">>, <<>>, <<Node("text", <<"A", "l", "l", " ", "p",
                             "o", "s", "t", "s">>)>>, None),
     Anchor(<<"/", "n", "e", "w", "s", "/", "c", "l", "a", "u", "d", "e", "-", "u", "p", "d",
             "a", "t", "e">>, <<>>, <<Node("text", <<"C", "l", "a", "u", "d", "e", " ", "u", "p",
                     "d", "a", "t", "e">>)>>,
            [local |-> 1, off |-> NoTz]),
     Anchor(<<"/", "n", "e", "w", "s", "/">>, <<>>, <<Node("text", <<"N", "e", "w", "s", "r",
             "o", "o", "m">>)>>, None)}

\* the i-th of a run of article cards on the Anthropic news page
NewsCard(i) ==
    Anchor(<<"/", "n", "e", "w", "s", "/", "i", "t", "e", "m", "-">> \o Numeral(i), <<>>,
           <<Node("h3", <<"A", "r", "t", "i", "c", "l", "e", " ">> \o Numeral(i))>>,
                   [local |-> 1, off |-> NoTz])

\* the i-th of a run of article cards on the DeepMind blog page
BlogCard(i) ==
    Anchor(<<"h", "t", "t", "p", "s", ":", "/", "/", "d", "e", "e", "p", "m", "i", "n", "d", ".",
            "g", "o", "o", "g", "l", "e", "/", "d", "i", "s", "c", "o", "v", "e", "r", "/", "b",
                    "l", "o", "g", "/", "p", "o", "s", "t", "-", "n", "o", "-">> \o Numeral(i),
                            <<>>,
           <<Node("h3", <<"A", "r", "t", "i", "c", "l", "e", " ">> \o Numeral(i))>>, None)

\* feed entries: complete, without a title, without a link and a date
EntryPool ==
    {[title |-> Some(<<"G", "P", "T", " ", "n", "e", "w", "s">>), link |-> Some(<<"h", "t", "t",
            "p", "s", ":", "/", "/", "o", "p", "e", "n", "a", "i", ".", "c", "o", "m", "/", "i",
                    "n", "d", "e", "x", "/", "g", "p", "t", "-", "n", "e", "w", "s">>),
      published |-> [local |-> 1, off |-> Some(0)]],
     [title |-> None, link |-> Some(<<"h", "t", "t", "p", "s", ":", "/", "/", "o", "p", "e", "n",
             "a", "i", ".", "c", "o", "m", "/", "i", "n", "d", "e", "x", "/", "u", "n", "t", "i",
                     "t", "l", "e", "d">>),
      published |-> [local |-> 0, off |-> Some(-2)]],
     [title |-> Some(<<"N", "o", " ", "l", "i", "n", "k">>), link |-> None, published |-> None]}

\* the i-th of a run of feed entries
Entry(i) ==
    [title |-> Some(<<"P", "o", "s", "t", " ">> \o Numeral(i)),
     link |-> Some(<<"h", "t", "t", "p", "s", ":", "/", "/", "o", "p", "e", "n", "a", "i", ".",
             "c", "o", "m", "/", "i", "n", "d", "e", "x", "/", "p", "o", "s", "t",
                     "-">> \o Numeral(i)),
     published |-> [local |-> 1, off |-> Some(0)]]

\* a document: a few elements of the pool, then a run of cards or entries
Documents(pool, cards) ==
    {head \o SubSeq(cards, 1, n) : head \in SeqsUpTo(pool, MaxVaried), n \in 0..MaxRun}

\* what each collector is given: the parsed feed, the parsed pages
SourceDocuments(source) ==
    IF source = "OpenAI" THEN Documents(EntryPool, [i \in 1..MaxRun |-> Entry(i)])
    ELSE IF source = "Anthropic" THEN Documents(AnchorPool, [i \in 1..MaxRun |-> NewsCard(i)])
    ELSE Documents(AnchorPool, [i \in 1..MaxRun |-> BlogCard(i)])

\* collector.fetch_articles() returns
Fetch ==
    /\ collect # None
    /\ collect.result = None
    /\ collect' = [collect EXCEPT !.result =
                      Some(fetch_articles(collect.source, collect.doc))]
    /\ UNCHANGED <<articles, artSeq, summaries, sumSeq, txn, now, sources, apiKey,
                   run, calls, saved, gen, query, digest, scheds, sjob>>

----------------------------------------------------------------------------
(* create_scheduler, start_scheduler *)

\* the ids the two jobs are registered under
JobIds == {"fetch_articles", "daily_summary"}

\* add_job(..., id=id, replace_existing=True) on a job store: a job of that id is
\* replaced where it is, otherwise the job is added
AddJob(store, id) ==
    IF \E k \in DOMAIN store : store[k] = id THEN store ELSE Append(store, id)

\* BackgroundScheduler() after the two add_job calls of create_scheduler: not
\* started, both jobs pending
Created ==
    [state |-> "stopped", pending |-> <<"fetch_articles", "daily_summary">>,
     store |-> <<>>, instances |-> [id \in JobIds |-> 0]]

RECURSIVE AddAll(_, _)
AddAll(store, pending) ==
    IF pending = <<>> THEN store
    ELSE AddAll(AddJob(store, Head(pending)), Tail(pending))

\* scheduler.start(): the pending jobs go to the job store, the scheduler runs
Started(sch) ==
    [sch EXCEPT !.state = "running", !.pending = <<>>,
                !.store = AddAll(sch.store, sch.pending)]

\* create_scheduler(): a new scheduler, returned to the caller
CreateScheduler ==
    /\ Len(scheds) < MaxSchedulers
    /\ scheds' = Append(scheds, Created)
    /\ UNCHANGED <<articles, artSeq, summaries, sumSeq, txn, now, sources, apiKey,
                   run, calls, saved, gen, query, digest, collect, sjob>>

\* start_scheduler(): create_scheduler() and scheduler.start()
StartScheduler ==
    /\ Len(scheds) < MaxSchedulers
    /\ scheds' = Append(scheds, Started(Created))
    /\ UNCHANGED <<articles, artSeq, summaries, sumSeq, txn, now, sources, apiKey,
                   run, calls, saved, gen, query, digest, collect, sjob>>

\* main.py: scheduler.shutdown() when the server stops; the running jobs finish
Shutdown(i) ==
    /\ scheds[i].state = "running"
    /\ scheds' = [scheds EXCEPT ![i].state = "shutdown",
                                ![i].instances = [id \in JobIds |-> 0]]
    /\ UNCHANGED <<articles, artSeq, summaries, sumSeq, txn, now, sources, apiKey,
                   run, calls, saved, gen, query, digest, collect, sjob>>

\* a job's trigger fires: the job is submitted unless an instance of it still
\* runs (max_instances is 1 by default)
Fire(i, id) ==
    /\ scheds[i].state = "running"
    /\ \E k \in DOMAIN scheds[i].store : scheds[i].store[k] = id
    /\ scheds[i].instances[id] = 0
    /\ scheds' = [scheds EXCEPT ![i].instances[id] = 1]
    /\ UNCHANGED <<articles, artSeq, summaries, sumSeq, txn, now, sources, apiKey,
                   run, calls, saved, gen, query, digest, collect, sjob>>

\* fetch_all_sources or run_daily_summary returns to the executor
JobReturns(i, id) ==
    /\ scheds[i].state = "running"
    /\ scheds[i].instances[id] = 1
    /\ scheds' = [scheds EXCEPT ![i].instances[id] = 0]
    /\ UNCHANGED <<articles, artSeq, summaries, sumSeq, txn, now, sources, apiKey,
                   run, calls, saved, gen, query, digest, collect, sjob>>

----------------------------------------------------------------------------
(* run_daily_summary *)

\* no run_daily_summary execution under way.  invoked counts the
\* generate_daily_summary calls of the execution, outcome tells how the call
\* ended, had_failure that some firing's call raised
IdleJob == [pc |-> "idle", invoked |-> 0, outcome |-> "none", had_failure |-> FALSE]

\* the generate_daily_summary invocation the summary job makes
JobGen == 1

\* the executor starts run_daily_summary for a submitted firing
RunDailySummaryEnter(i) ==
    /\ scheds[i].state = "running"
    /\ scheds[i].instances["daily_summary"] = 1
    /\ sjob.pc = "idle"
    /\ sjob' = [sjob EXCEPT !.pc = "try", !.invoked = 0, !.outcome = "none"]
    /\ UNCHANGED <<articles, artSeq, summaries, sumSeq, txn, now, sources, apiKey,
                   run, calls, saved, gen, query, digest, scheds, collect>>

\* try: generate_daily_summary() is called
RunDailySummaryCall ==
    /\ sjob.pc = "try"
    /\ sjob' = [sjob EXCEPT !.pc = "wait", !.invoked = @ + 1]
    /\ gen' = [gen EXCEPT ![JobGen] = IdleGen]
    /\ UNCHANGED <<articles, artSeq, summaries, sumSeq, txn, now, sources, apiKey,
                   run, calls, saved, query, digest, scheds, collect>>

\* the call returned a Summary: its date is printed, run_daily_summary returns
RunDailySummaryOk ==
    /\ sjob.pc = "wait"
    /\ gen[JobGen].pc = "done"
    /\ sjob' = [sjob EXCEPT !.pc = "returned", !.outcome = "ok"]
    /\ UNCHANGED <<articles, artSeq, summaries, sumSeq, txn, now, sources, apiKey,
                   run, calls, saved, gen, query, digest, scheds, collect>>

ExceptionEscapes(job) ==
    [job EXCEPT !.pc = "escaped", !.outcome = "raised", !.had_failure = TRUE]

\* except Exception: the error is printed, run_daily_summary returns
ExceptException(job) ==
    [job EXCEPT !.pc = "returned", !.outcome = "caught", !.had_failure = TRUE]

\* the call raised
RunDailySummaryExcept ==
    /\ sjob.pc = "wait"
    /\ gen[JobGen].pc = "raised"
    /\ sjob' = ExceptException(sjob)
    /\ UNCHANGED <<articles, artSeq, summaries, sumSeq, txn, now, sources, apiKey,
                   run, calls, saved, gen, query, digest, scheds, collect>>

\* run_daily_summary has returned to the executor: the job instance is over
SummaryJobReturns(i) ==
    /\ scheds[i].state = "running"
    /\ scheds[i].instances["daily_summary"] = 1
    /\ sjob.pc = "returned"
    /\ scheds' = [scheds EXCEPT ![i].instances["daily_summary"] = 0]
    /\ sjob' = [sjob EXCEPT !.pc = "idle"]
    /\ UNCHANGED <<articles, artSeq, summaries, sumSeq, txn, now, sources, apiKey,
                   run, calls, saved, gen, query, digest, collect>>

----------------------------------------------------------------------------

\* after init_db: empty tables, no job running
InitState ==
    /\ articles = {}
    /\ artSeq = 0
    /\ summaries = {}
    /\ sumSeq = 0
    /\ txn = NoTxn
    /\ now = 0
    /\ run = [r \in Runs |-> IdleRun]
    /\ calls = [u \in Urls |-> [wins |-> 0, dups |-> FALSE, winner |-> None]]
    /\ saved = [d \in Dates |-> None]
    /\ gen = [g \in Gens |-> IdleGen]
    /\ query = None
    /\ sjob = IdleJob

\* config = Config(): the default source list, GEMINI_API_KEY not set
Init ==
    /\ sources = DefaultSources
    /\ apiKey = FALSE
    /\ digest = None
    /\ collect = None
    /\ scheds = <<>>
    /\ InitState

Next ==
    \/ \E r \in Runs : FetchStart(r)
    \/ \E r \in Runs : FetchArticlesOk(r)
    \/ \E r \in Runs : FetchArticlesRaise(r)
    \/ \E r \in Runs : SaveDuplicate(r)
    \/ \E r \in Runs : SaveInsert(r)
    \/ \E r \in Runs : SaveCommit(r)
    \/ \E r \in Runs : CollectorDone(r)
    \/ \E r \in Runs : FetchReturn(r)

Spec == Init /\ [][Next]_vars

\* the fetch job when a save_article call may fail on a locked database
NextFault ==
    \/ \E r \in Runs : FetchStart(r)
    \/ \E r \in Runs : FetchArticlesOk(r)
    \/ \E r \in Runs : FetchArticlesRaise(r)
    \/ \E r \in Runs : SaveDuplicate(r)
    \/ \E r \in Runs : SaveInsert(r)
    \/ \E r \in Runs : SaveCommit(r)
    \/ \E r \in Runs : SaveRaises(r)
    \/ \E r \in Runs : CollectorDone(r)
    \/ \E r \in Runs : FetchReturn(r)

SpecFault == Init /\ [][NextFault]_vars

\* the fetch job under any of the enumerated configurations
InitConfig ==
    /\ sources \in SourceConfigs
    /\ apiKey = FALSE
    /\ digest = None
    /\ collect = None
    /\ scheds = <<>>
    /\ InitState

SpecConfig == InitConfig /\ [][Next]_vars

\* the summary job, beside fetch runs that persist articles
NextSummary ==
    \/ \E g \in Gens : GetRecent(g)
    \/ \E g \in Gens : GeminiNoKey(g)
    \/ \E g \in Gens : GenaiConfigure(g)
    \/ \E g \in Gens : GenaiConfigureRaises(g)
    \/ \E g \in Gens : GenerativeModel(g)
    \/ \E g \in Gens : GenerativeModelRaises(g)
    \/ \E g \in Gens : GenerateContent(g)
    \/ \E g \in Gens : GenerateContentRaises(g)
    \/ \E g \in Gens : BuildSummary(g)
    \/ \E g \in Gens : SaveSummaryInsert(g)
    \/ \E g \in Gens : SaveSummaryCommit(g)
    \/ artSeq < MaxStored /\ PersistArticle(1)
    \/ Tick

\* GEMINI_API_KEY set or not
InitSummary ==
    /\ sources = DefaultSources
    /\ apiKey \in BOOLEAN
    /\ digest = None
    /\ collect = None
    /\ scheds = <<>>
    /\ InitState

SpecSummary == InitSummary /\ [][NextSummary]_vars

\* the serving layer's queries, beside fetch runs that persist articles
NextQuery ==
    \/ \E source \in {None} \cup {Some(n) : n \in SourceNames},
          since \in {None} \cup {Some(t) : t \in Times},
          limit \in 0..MaxRows : Query(source, since, limit)
    \/ artSeq < MaxRows /\ \E r \in Runs : PersistArticle(r)
    \/ Tick

SpecQuery == Init /\ [][NextQuery]_vars

\* the fallback digest of every article list
NextFallback == Digest

\* an article list is at hand and no key is set: _generate_summary_with_gemini
\* goes straight to _fallback_summary
InitFallback ==
    /\ sources = DefaultSources
    /\ apiKey = FALSE
    /\ digest \in {[input |-> arts, output |-> None] : arts \in DigestInputs}
    /\ collect = None
    /\ scheds = <<>>
    /\ InitState

SpecFallback == InitFallback /\ [][NextFallback]_vars

\* the schedulers of one process
NextSched ==
    \/ CreateScheduler
    \/ StartScheduler
    \/ \E i \in DOMAIN scheds : Shutdown(i)
    \/ \E i \in DOMAIN scheds, id \in JobIds : Fire(i, id)
    \/ \E i \in DOMAIN scheds, id \in JobIds : JobReturns(i, id)

SpecSched == Init /\ [][NextSched]_vars

\* main.py run: the scheduler started once, its two jobs firing; the summary
\* job runs run_daily_summary, the fetch job persists articles
GenStep ==
    \/ GetRecent(JobGen)
    \/ GeminiNoKey(JobGen)
    \/ GenaiConfigure(JobGen)
    \/ GenaiConfigureRaises(JobGen)
    \/ GenerativeModel(JobGen)
    \/ GenerativeModelRaises(JobGen)
    \/ GenerateContent(JobGen)
    \/ GenerateContentRaises(JobGen)
    \/ BuildSummary(JobGen)
    \/ SaveSummaryInsert(JobGen)
    \/ SaveSummaryCommit(JobGen)

SummaryJobStep ==
    \/ \E i \in DOMAIN scheds : RunDailySummaryEnter(i)
    \/ RunDailySummaryCall
    \/ sjob.pc = "wait" /\ GenStep
    \/ RunDailySummaryOk
    \/ RunDailySummaryExcept
    \/ \E i \in DOMAIN scheds : SummaryJobReturns(i)

\* the summary trigger fires; the rows written are bounded by MaxSummaries
FireSummary == sumSeq < MaxSummaries /\ \E i \in DOMAIN scheds : Fire(i, "daily_summary")

NextJobs ==
    \/ \E i \in DOMAIN scheds : Fire(i, "fetch_articles")
    \/ FireSummary
    \/ \E i \in DOMAIN scheds : JobReturns(i, "fetch_articles")
    \/ SummaryJobStep
    \/ artSeq < MaxStored /\ PersistArticle(1)
    \/ \E i \in DOMAIN scheds : Shutdown(i)

\* start_scheduler() has been called once
InitJobs ==
    /\ sources = DefaultSources
    /\ apiKey \in BOOLEAN
    /\ digest = None
    /\ collect = None
    /\ scheds = <<Started(Created)>>
    /\ InitState

SpecJobs == InitJobs /\ [][NextJobs]_vars

\* the triggers keep firing while the scheduler runs, fetch_all_sources
\* returns, and the steps of run_daily_summary are taken
SpecJobsLive ==
    /\ SpecJobs
    /\ WF_vars(\E i \in DOMAIN scheds : Fire(i, "fetch_articles"))
    /\ WF_vars(FireSummary)
    /\ WF_vars(\E i \in DOMAIN scheds : JobReturns(i, "fetch_articles"))
    /\ WF_vars(SummaryJobStep)

\* one fetch_articles call on every source document
NextCollect == Fetch

InitCollect ==
    /\ sources = DefaultSources
    /\ apiKey = FALSE
    /\ digest = None
    /\ collect \in UNION {{[source |-> s, doc |-> d, result |-> None] :
                              d \in SourceDocuments(s)} : s \in SourceNames}
    /\ scheds = <<>>
    /\ InitState

SpecCollect == InitCollect /\ [][NextCollect]_vars

----------------------------------------------------------------------------
(* Properties of the store and of the fetch job *)

\* the rows run r inserted: a row's title names the document revision it was
\* built from, and run r reads revision r
InsertedBy(r) == {row \in articles : row.title[2] = r}

RowsOf(u) == {row \in articles : row.url = u}

\* a save_article call of run r returns in this step
SaveReturns(r) ==
    /\ run[r].pc \in {"save", "commit"}
    /\ run'[r].pc = "save"
    /\ Len(run'[r].items) = Len(run[r].items) - 1

\* C1: a save_article call whose url is not in the store returns an identifier and
\* adds exactly one row, the row of that identifier; a call whose url is in the
\* store returns None and leaves the store as it was; no step alters or removes
\* a row, and no two rows share a url.
C1_SaveArticleDedup ==
    [][/\ \A row \in articles : row \in articles'
       /\ \A x, y \in articles' : x.url = y.url => x = y
       /\ \A r \in Runs :
            SaveReturns(r) =>
              LET u == Head(run[r].items).url IN
              IF RowsOf(u) # {}
              THEN /\ run'[r].new_count = run[r].new_count
                   /\ articles' = articles
              ELSE /\ run'[r].new_count = run[r].new_count + 1
                   /\ \E row \in articles' :
                        /\ row.url = u
                        /\ row.id = artSeq'
                        /\ row.id \notin {x.id : x \in articles}
                        /\ articles' = articles \cup {row}]_vars

\* some url was saved once and then signalled as a duplicate
C1_Witness ==
    \E u \in Urls : calls[u].wins = 1 /\ calls[u].dups /\ Cardinality(RowsOf(u)) = 1

IsPrefix(p, q) == Len(p) <= Len(q) /\ \A i \in DOMAIN p : p[i] = q[i]

\* C4: a run never ends by raising; a collector whose fetch_articles raised has no
\* row inserted by the run; the collectors are invoked in list order and, once the
\* loop is over, every one of them was invoked, those after a failed one too; the
\* finished run has returned a count.
C4_CollectorFailureIsolated ==
    \A r \in Runs :
      /\ run[r].pc # "raised"
      /\ \A s \in run[r].failed : ~\E row \in InsertedBy(r) : row.source = s
      /\ IsPrefix(run[r].invoked, Collectors)
      /\ run[r].pc \in {"return", "done"} => run[r].invoked = Collectors
      /\ run[r].pc = "done" => run[r].ret # None

\* a finished run whose first collector raised and whose last collector's item
\* was persisted
C4_Witness ==
    \E r \in Runs :
      /\ run[r].pc = "done"
      /\ "OpenAI" \in run[r].failed
      /\ \E row \in InsertedBy(r) : row.source = "DeepMind"
      /\ run[r].ret.some >= 1

\* the names of the enabled SourceConfigs, in configuration order
RECURSIVE EnabledNames(_)
EnabledNames(cfg) ==
    IF cfg = <<>> THEN <<>>
    ELSE IF Head(cfg).enabled THEN <<Head(cfg).name>> \o EnabledNames(Tail(cfg))
         ELSE EnabledNames(Tail(cfg))

\* C10: the collectors a run invokes are those of the enabled SourceConfigs, in
\* configuration order (a disabled source is never fetched), and a collector is
\* invoked only when the items of the one before it have all been handed to
\* save_article.
C10_EnabledSourcesInOrder ==
    \A r \in Runs :
      /\ IsPrefix(run[r].invoked, EnabledNames(sources))
      /\ run[r].pc \in {"return", "done"} => run[r].invoked = EnabledNames(sources)
      /\ run[r].pc = "fetch" => run[r].items = <<>>

----------------------------------------------------------------------------
(* Properties of the summary job *)

IsFallback(c) == DOMAIN c = {"lines"}

\* C3: after every step the store holds at most one summary row per date; a date
\* for which save_summary has committed holds exactly the row of the call that
\* committed last (its content and created_at), a date for which none has holds
\* no row; and a date that holds a row before the step holds one after it.
C3_SummaryUpsertByDate ==
    [][/\ \A x, y \in summaries' : x.date = y.date => x = y
       /\ \A d \in Dates :
            IF saved'[d] = None
            THEN ~\E row \in summaries' : row.date = d
            ELSE {row \in summaries' : row.date = d} = {saved'[d]}
       /\ \A row \in summaries : \E new \in summaries' : new.date = row.date]_vars

\* both generations have saved a summary for the same date with different
\* contents, and the store holds the later one only
C3_Witness ==
    /\ \A g \in Gens : gen[g].pc = "done"
    /\ gen[1].stored.date = gen[2].stored.date
    /\ gen[1].stored.content # gen[2].stored.content
    /\ gen[1].stored.id < gen[2].stored.id
    /\ summaries = {gen[2].stored}

\* C5: a generation whose query returned at least one article never ends by
\* raising; it stores and returns a Summary, and when the api key is absent or a
\* step of the primary path raised, the content is the fallback digest.
C5_FallbackOnAnyPrimaryError ==
    \A g \in Gens :
      gen[g].queried >= 1 =>
        /\ gen[g].pc # "raised"
        /\ gen[g].pc = "done" =>
             /\ gen[g].ret # None
             /\ gen[g].stored # None
             /\ (~apiKey \/ gen[g].raised_in # "none") => IsFallback(gen[g].ret.content)

\* the articles of the lookback window, read off the table
InWindow(rows, t) == {row \in rows : row.scraped_at >= t - LookbackTicks}

\* C8: a generation that starts when no stored article is in the lookback window
\* gets an empty list and takes the placeholder; a generation whose list was
\* empty sends no request to the model, never enters the LLM path, and the Summary
\* it returns and the row it commits under that Summary's date hold exactly the
\* placeholder, with or without an api key.
C8_PlaceholderWhenWindowEmpty ==
    [][\A g \in Gens :
         /\ (gen[g].pc = "idle" /\ gen'[g].pc # "idle" /\ InWindow(articles, now) = {}) =>
               /\ gen'[g].queried = 0
               /\ gen'[g].pc = "build"
               /\ gen'[g].content = Placeholder
         /\ (gen'[g].pc # "idle" /\ gen'[g].queried = 0) =>
               /\ gen'[g].llm_calls = 0
               /\ gen'[g].pc \in {"build", "save", "commit", "done"}
               /\ gen'[g].content = Placeholder
               /\ gen'[g].pc = "done" =>
                    /\ gen'[g].ret.content = Placeholder
                    /\ gen'[g].stored = SummaryRow(gen'[g].ret, gen'[g].stored.id)
         /\ (gen[g].pc = "commit" /\ gen'[g].pc = "done" /\ gen[g].queried = 0) =>
               \E row \in summaries' :
                  /\ row = gen'[g].stored
                  /\ row.date = gen'[g].ret.date
                  /\ row.content = Placeholder]_vars

\* with an api key set and an article older than the window in the store, a
\* generation has stored and returned the placeholder
C8_Witness ==
    \E g \in Gens :
      /\ apiKey
      /\ articles # {}
      /\ gen[g].pc = "done"
      /\ gen[g].queried = 0
      /\ gen[g].ret.content = Placeholder
      /\ gen[g].stored \in summaries

----------------------------------------------------------------------------
(* Properties of the queries, the digest and the job registrations *)

\* the instant a published_at denotes: the wall-clock time less the UTC offset
Instant(p) == IF p.off = NoTz THEN p.local ELSE p.local - p.off.some

\* two datetimes Python can compare: both naive or both aware
Comparable(p, q) == (p.off = NoTz) = (q.off = NoTz)

\* the order the claim describes: dated articles first by published_at
\* descending, then the undated ones, each group tie-broken by scraped_at
\* descending
ClaimedOrder(q) ==
    \A i, j \in DOMAIN q :
      i < j =>
        LET x == q[i].published_at
            y == q[j].published_at
        IN /\ x = None => y = None
           /\ (x # None /\ y # None /\ Comparable(x, y)) => Instant(x) >= Instant(y)
           /\ (x = None /\ y = None) => q[i].scraped_at >= q[j].scraped_at
           /\ (x # None /\ y # None /\ Comparable(x, y) /\ Instant(x) = Instant(y)) =>
                 q[i].scraped_at >= q[j].scraped_at

Arrangements(S) ==
    {q \in [1..Cardinality(S) -> S] : \A i, j \in DOMAIN q : i # j => q[i] # q[j]}

\* C7: what get_articles returns is the first `limit` elements of the matching
\* rows (source equal when given, scraped_at not before since when given) put in
\* the claimed order.
C7_QueryOrder ==
    [][query' # query =>
         \E full \in Arrangements({r \in articles :
                    /\ query'.source # None => r.source = query'.source.some
                    /\ query'.since # None => r.scraped_at >= query'.since.some}) :
            /\ ClaimedOrder(full)
            /\ query'.result = Take(full, query'.limit)]_vars

\* the sections of a digest: the positions of its heading lines
Headings(lines) == {i \in DOMAIN lines : DOMAIN lines[i] = {"heading"}}

\* the link lines that follow heading i, up to the next heading or the footer
LinksAfter(lines, i) ==
    LET later == {j \in Headings(lines) : j > i}
        stop == IF later = {} THEN Len(lines)
                ELSE CHOOSE j \in later : \A k \in later : j <= k
    IN SubSeq(lines, i + 1, stop - 1)

\* C9: the digest of a non-empty list opens with the title and ends with the
\* footer; it has exactly one section per distinct source of the list, the
\* sections in ascending order of source name; the section of a source lists
\* min(5, n) links for its n articles, the m-th being the m-th article of that
\* source in the list.
C9_FallbackSections ==
    (digest # None /\ digest.output # None) =>
      LET arts == digest.input
          lines == digest.output.lines
          hs == Headings(lines)
          Mine(s) == {k \in DOMAIN arts : arts[k].source = s}
          Rank(s, k) == Cardinality({k2 \in Mine(s) : k2 <= k})
      IN /\ DOMAIN lines[1] = {"title"}
         /\ DOMAIN lines[Len(lines)] = {"generated"}
         /\ {lines[i].heading : i \in hs} = {arts[k].source : k \in DOMAIN arts}
         /\ \A i, j \in hs : i < j => StrLess(lines[i].heading, lines[j].heading)
         /\ \A i \in hs :
              LET s == lines[i].heading
                  links == LinksAfter(lines, i)
                  n == Cardinality(Mine(s))
              IN /\ Len(links) = IF n < 5 THEN n ELSE 5
                 /\ \A m \in DOMAIN links :
                      \E k \in Mine(s) :
                         /\ Rank(s, k) = m
                         /\ links[m] = [link |-> arts[k].title, href |-> arts[k].url]

\* 2 OpenAI and 6 DeepMind articles: a DeepMind section of 5 links, then an
\* OpenAI section of 2
C9_Witness ==
    /\ digest # None
    /\ digest.output # None
    /\ Cardinality({k \in DOMAIN digest.input : digest.input[k].source = "OpenAI"}) = 2
    /\ Cardinality({k \in DOMAIN digest.input : digest.input[k].source = "DeepMind"}) = 6
    /\ Len(digest.output.lines) = 11
    /\ digest.output.lines[2] = [heading |-> "DeepMind"]
    /\ digest.output.lines[8] = [heading |-> "OpenAI"]

\* the future firing schedules of a job id: its entries in the job stores of
\* the running schedulers
RECURSIVE FiringSchedules(_, _)
FiringSchedules(ss, id) ==
    IF ss = <<>> THEN 0
    ELSE FiringSchedules(Tail(ss), id)
         + (IF Head(ss).state = "running"
            THEN Cardinality({k \in DOMAIN Head(ss).store : Head(ss).store[k] = id})
            ELSE 0)

\* C6: at any time each job id has at most one future firing schedule.
C6_OneSchedulePerJobId ==
    \A id \in JobIds : FiringSchedules(scheds, id) <= 1

\* C13: when generate_daily_summary returns a Summary, the table holds a row of
\* the current date, and the identifier, date, content and created_at of the
\* returned Summary are those of that row.
C13_ReturnedSummaryIsStoredRow ==
    [][\A g \in Gens :
         (gen[g].ret = None /\ gen'[g].ret # None) =>
            \E row \in summaries' :
               /\ row.date = DateOf(now')
               /\ gen'[g].ret.id = Some(row.id)
               /\ gen'[g].ret.date = row.date
               /\ gen'[g].ret.content = row.content
               /\ gen'[g].ret.created_at = row.created_at]_vars

----------------------------------------------------------------------------
(* Properties of the fetch job under storage faults *)

\* C12: the value a fetch run returns is the number of rows the run inserted.
C12_ReturnCountsInserted ==
    \A r \in Runs :
      run[r].ret # None => run[r].ret.some = Cardinality(InsertedBy(r))

----------------------------------------------------------------------------
(* Properties of the collectors *)

\* C11: a fetch_articles call of any of the three collectors returns a list
\* of at most 20 items.
C11_AtMostPerRunLimit ==
    (collect # None /\ collect.result # None) => Len(collect.result.some) <= 20

\* the validity predicate as the claim words it: non-empty, at least 5
\* characters, not equal to a navigation phrase whatever the case
PassesValidity(text) ==
    /\ text # <<>>
    /\ Len(text) >= 5
    /\ ToLower(text) \notin InvalidTitles

\* the tiers before the slug: accessible label, nested heading text, cleaned
\* anchor text
TitleTiers(link) ==
    LET hs == {i \in DOMAIN link.nodes : IsHeading(link.nodes[i])}
    IN <<link.aria,
         IF hs = {} THEN <<>>
         ELSE Strip(link.nodes[CHOOSE i \in hs : \A j \in hs : i <= j].text),
         CleanLinkText(link)>>

\* the result of the earliest tier that passes validity, the slug title otherwise
TieredTitle(link, url) ==
    LET tiers == TitleTiers(link)
        ok == {t \in DOMAIN tiers : PassesValidity(tiers[t])}
    IN IF ok = {} THEN _title_from_url(url)
       ELSE tiers[CHOOSE t \in ok : \A u \in ok : t <= u]

\* C14: every item the multi-strategy scrape returns comes from the first
\* anchor of its url, carries the title of the earliest tier that passes
\* validity (the slug title when none does), and that title passes validity.
C14_TitleFromEarliestValidTier ==
    (collect # None /\ collect.result # None /\ collect.source = "DeepMind") =>
      \A i \in DOMAIN collect.result.some :
        LET item == collect.result.some[i]
            from == {k \in DOMAIN collect.doc :
                        /\ IsBlogLink(collect.doc[k].href)
                        /\ BaseUrl(collect.doc[k].href) = item.url}
        IN /\ from # {}
           /\ item.title = TieredTitle(collect.doc[CHOOSE k \in from : \A j \in from : k <= j],
                                       item.url)
           /\ PassesValidity(item.title)

----------------------------------------------------------------------------
(* Properties of the summary job's firings *)

Stopped == \A i \in DOMAIN scheds : scheds[i].state # "running"

Firing(id) == \E i \in DOMAIN scheds : scheds[i].instances[id] = 1

\* C15: a firing of the summary job calls generate_daily_summary once;
\* run_daily_summary returns whether the call returned or raised, the exception
\* never leaves it; the scheduler keeps both jobs and goes on running until it
\* is shut down; after a firing whose call raised, the summary job and the
\* fetch job fire again unless the scheduler is shut down first (or, for the
\* summary job, MaxSummaries rows have been written).
C15_FailedFiringContained ==
    /\ [](/\ sjob.invoked <= 1
          /\ sjob.pc = "returned" => sjob.invoked = 1
          /\ sjob.pc # "escaped"
          /\ gen[JobGen].pc = "raised" => sjob.pc \in {"wait", "returned", "idle", "try"}
          /\ sjob.outcome = "caught" =>
               \A i \in DOMAIN scheds :
                  scheds[i].state = "running" =>
                     \A id \in JobIds : \E k \in DOMAIN scheds[i].store :
                        scheds[i].store[k] = id)
    /\ (sjob.pc = "returned" /\ sjob.outcome = "caught") ~>
          (Stopped \/ sumSeq >= MaxSummaries \/ sjob.pc = "wait")
    /\ (sjob.pc = "returned" /\ sjob.outcome = "caught") ~> (Stopped \/ ~Firing("fetch_articles"))
    /\ ~Firing("fetch_articles") ~> (Stopped \/ Firing("fetch_articles"))

\* after a firing whose call raised, a later firing has returned a Summary and
\* the scheduler still runs
C15_Witness ==
    /\ sjob.had_failure
    /\ sjob.pc = "returned"
    /\ sjob.outcome = "ok"
    /\ ~Stopped

====
